---- MODULE Spec2Model ----
(***************************************************************************)
(* IntelliMap: the header matching engine of utils/mapper.py (SmartMapper). *)
(* Column names are TLA+ strings; a character is a string of length 1.     *)
(* Python floats are modelled as exact rationals <<numerator, denominator>> *)
(* in lowest terms.                                                        *)
(***************************************************************************)
EXTENDS Integers, Sequences, FiniteSets, TLC

VARIABLES
  pc,                   \* position of the call being modelled
  header,               \* normalize_header: the argument of the first call
  normalized,           \* normalize_header: the successive results
  template_col,         \* _calculate_match_score: first argument
  raw_col,              \* _calculate_match_score: second argument
  score,                \* _calculate_match_score: the value returned
  similarity_threshold, \* SmartMapper.similarity_threshold
  template_columns,     \* fuzzy_match_headers: target (template) column names
  raw_columns,          \* fuzzy_match_headers: source (raw) column names
  cost_matrix,          \* fuzzy_match_headers: cost_matrix[<<i, j>>]
  template_indices,     \* linear_sum_assignment: assigned rows
  raw_indices,          \* linear_sum_assignment: assigned columns
  i,                    \* fuzzy_match_headers: index of the mapping loop
  mappings,             \* fuzzy_match_headers: {template_col: (raw_col, confidence)}
  raw_patterns,         \* semantic_pattern_match: pattern of each raw_df column
  template_patterns,    \* semantic_pattern_match: pattern of each template_df column
  enhanced_mappings,    \* semantic_pattern_match: the copy that is returned
  unmapped_template,    \* semantic_pattern_match: targets still to be tried
  unused_raw,           \* semantic_pattern_match: raw columns not yet referenced
  show_all,             \* app.main: the "Show all mappings" checkbox
  selected,             \* app.main: the value of each target's selectbox
  renders,              \* app.main: renders of the review section so far
  raw_df,               \* the source dataset: column name -> cells, top to bottom
  sample_size,          \* _detect_value_contamination: the sample cap
  col_index,            \* _detect_value_contamination: column of the sampling loop
  str_samples,          \* _detect_value_contamination: column -> set of sampled strings
  contamination,        \* _detect_value_contamination: the report returned
  template_dtypes,      \* apply_mappings: dtype of each template_df column
  output_df,            \* apply_mappings: the dataset returned
  template_df,          \* the template dataset: column name -> cells
  twin_raw_df,          \* the source dataset of a second session
  twin_template_df,     \* the template dataset of a second session
  clock,                \* datetime.now(), as a count of the calls made
  metadata,             \* session -> MetadataManager.metadata
  exported,             \* session -> the configuration text downloaded
  compat,               \* the last validate_compatibility call and its report
  series,               \* detect_data_patterns: the cells of the column given
  pattern               \* detect_data_patterns: the value returned

vars == <<pc, header, normalized, template_col, raw_col, score,
          similarity_threshold, template_columns, raw_columns, cost_matrix,
          template_indices, raw_indices, i, mappings,
          raw_patterns, template_patterns, enhanced_mappings, unmapped_template,
          unused_raw, show_all, selected, renders,
          raw_df, sample_size, col_index, str_samples, contamination,
          template_dtypes, output_df,
          template_df, twin_raw_df, twin_template_df, clock, metadata, exported,
          compat, series, pattern>>

normVars  == <<header, normalized>>
scoreVars == <<template_col, raw_col, score>>
matchVars == <<similarity_threshold, template_columns, raw_columns, cost_matrix,
               template_indices, raw_indices, i, mappings>>
patternVars == <<raw_patterns, template_patterns, enhanced_mappings,
                 unmapped_template, unused_raw>>
\* the variables of the calls made by the application around the matching
reviewVars == <<show_all, selected, renders>>
contamVars == <<raw_df, sample_size, col_index, str_samples, contamination>>
transformVars == <<template_dtypes, output_df>>
configVars == <<template_df, twin_raw_df, twin_template_df, clock, metadata,
                exported, compat>>
detectVars == <<series, pattern>>
appVars == <<patternVars, reviewVars, contamVars, transformVars, configVars,
             detectVars>>
\* what the calls of one part of the application leave alone
patternFrame == <<normVars, scoreVars, reviewVars, contamVars, transformVars, configVars,
                  detectVars>>
reviewFrame == <<normVars, scoreVars, patternVars, contamVars, transformVars, configVars,
                 detectVars>>
contamFrame == <<normVars, scoreVars, patternVars, reviewVars, transformVars, configVars,
                 detectVars>>
transformFrame == <<normVars, scoreVars, patternVars, reviewVars, configVars,
                    detectVars>>
detectFrame == <<normVars, scoreVars, matchVars, patternVars, reviewVars,
                contamVars, transformVars, configVars>>
configFrame == <<normVars, scoreVars, patternVars, reviewVars, transformVars,
                 detectVars>>

(***************************************************************************)
(* Bounds of the model                                                     *)
(***************************************************************************)
\* applications of normalize_header to its own result
MaxNormalize == 2
\* rows of the enumerated source datasets
MaxRows == 3
\* renders of the review section in one session
MaxRenders == 2
\* longest target / source list drawn from the pools
MaxColumns == 2

\* SmartMapper.__init__: similarity_threshold: int = 70
DefaultThreshold == 70
\* _detect_value_contamination: sample_size: int = 100
DefaultSampleSize == 100

(***************************************************************************)
(* Exact rationals for Python floats                                       *)
(***************************************************************************)
RECURSIVE GCD(_, _)
GCD(a, b) == IF b = 0 THEN a ELSE GCD(b, a % b)

Rat(n, d) == LET g == GCD(n, d) IN <<n \div g, d \div g>>
RInt(n) == <<n, 1>>
RAdd(x, y) == Rat(x[1] * y[2] + y[1] * x[2], x[2] * y[2])
RSub(x, y) == Rat(x[1] * y[2] - y[1] * x[2], x[2] * y[2])
RDivInt(x, k) == Rat(x[1], x[2] * k)
RLeq(x, y) == x[1] * y[2] <= y[1] * x[2]
RLt(x, y) == x[1] * y[2] < y[1] * x[2]
RMax(x, y) == IF RLeq(x, y) THEN y ELSE x

Max(a, b) == IF a >= b THEN a ELSE b

(***************************************************************************)
(* Python str operations                                                   *)
(***************************************************************************)
UpperCase == "ABCDEFGHIJKLMNOPQRSTUVWXYZ"
LowerCase == "abcdefghijklmnopqrstuvwxyz"
Digits == "0123456789"
\* the characters of [a-z0-9] in code point order
CodePointOrder == Digits \o LowerCase

CharAt(s, k) == SubSeq(s, k, k)
CharSet(s) == {CharAt(s, k) : k \in 1..Len(s)}
IndexIn(s, c) == CHOOSE k \in 1..Len(s) : CharAt(s, k) = c

UpperSet == CharSet(UpperCase)
AlnumSet == CharSet(LowerCase) \cup UpperSet \cup CharSet(Digits)
\* \s of the regular expression, and the separators of str.split()
WhiteSpace == {" ", "\t", "\n"}

\* str.lower()
RECURSIVE lower(_)
lower(s) ==
  IF s = "" THEN ""
  ELSE LET c == CharAt(s, 1)
       IN (IF c \in UpperSet THEN CharAt(LowerCase, IndexIn(UpperCase, c)) ELSE c)
          \o lower(SubSeq(s, 2, Len(s)))

\* re.sub(r'[^a-zA-Z0-9\s]', '', s)
RECURSIVE re_sub_special(_)
re_sub_special(s) ==
  IF s = "" THEN ""
  ELSE LET c == CharAt(s, 1)
       IN (IF c \in AlnumSet \cup WhiteSpace THEN c ELSE "")
          \o re_sub_special(SubSeq(s, 2, Len(s)))

\* str.split(): the maximal runs of non-whitespace characters, in order
RECURSIVE SplitFrom(_, _, _, _)
SplitFrom(s, k, word, acc) ==
  IF k > Len(s) THEN (IF word = "" THEN acc ELSE Append(acc, word))
  ELSE IF CharAt(s, k) \in WhiteSpace
       THEN SplitFrom(s, k + 1, "", IF word = "" THEN acc ELSE Append(acc, word))
       ELSE SplitFrom(s, k + 1, word \o CharAt(s, k), acc)

split(s) == SplitFrom(s, 1, "", <<>>)

\* ' '.join(words)
RECURSIVE join(_)
join(words) ==
  IF words = <<>> THEN ""
  ELSE IF Len(words) = 1 THEN words[1]
  ELSE words[1] \o " " \o join(Tail(words))

ToSet(seq) == {seq[k] : k \in 1..Len(seq)}

(***************************************************************************)
(* SmartMapper tables                                                      *)
(***************************************************************************)
FIELD_SYNONYMS ==
  [ email |-> <<"email", "e-mail", "mail", "email address", "electronic mail", "e mail">>,
    phone |-> <<"phone", "telephone", "mobile", "cell", "contact number", "phone number", "tel", "contact", "phone no">>,
    name |-> <<"name", "full name", "fullname", "customer name", "person name", "client name">>,
    first_name |-> <<"first name", "firstname", "given name", "fname", "first">>,
    last_name |-> <<"last name", "lastname", "surname", "family name", "lname", "last">>,
    address |-> <<"address", "street address", "location", "addr", "street", "address line">>,
    city |-> <<"city", "town", "municipality">>,
    state |-> <<"state", "province", "region">>,
    zip |-> <<"zip", "zipcode", "postal code", "postcode", "zip code", "postal">>,
    country |-> <<"country", "nation">>,
    date |-> <<"date", "dt", "timestamp", "time", "datetime">>,
    id |-> <<"id", "identifier", "uid", "unique id", "record id", "customer id", "user id">>,
    amount |-> <<"amount", "total", "sum", "value", "price", "cost", "amt">>,
    quantity |-> <<"quantity", "qty", "count", "number", "num">>,
    description |-> <<"description", "desc", "details", "notes", "comments">>,
    status |-> <<"status", "state", "condition">>,
    company |-> <<"company", "organization", "org", "business", "company name">>,
    title |-> <<"title", "job title", "position", "role">>,
    department |-> <<"department", "dept", "division">>,
    salary |-> <<"salary", "wage", "pay", "compensation">>,
    age |-> <<"age", "years old", "yrs">>,
    gender |-> <<"gender", "sex">>,
    website |-> <<"website", "url", "web", "site">> ]

ABBREVIATIONS ==
  [ addr |-> "address",
    qty |-> "quantity",
    desc |-> "description",
    num |-> "number",
    amt |-> "amount",
    dt |-> "date",
    tel |-> "telephone",
    mob |-> "mobile",
    fname |-> "first name",
    lname |-> "last name",
    dob |-> "date of birth",
    ssn |-> "social security number",
    ein |-> "employer identification number",
    org |-> "organization",
    dept |-> "department",
    mgr |-> "manager",
    emp |-> "employee",
    cust |-> "customer",
    prod |-> "product",
    cat |-> "category",
    ref |-> "reference",
    no |-> "number",
    st |-> "street",
    ave |-> "avenue",
    blvd |-> "boulevard",
    dr |-> "drive",
    ln |-> "lane",
    rd |-> "road",
    ct |-> "court",
    pl |-> "place" ]

\* dict.get(word, word)
AbbreviationsGet(table, word) ==
  IF word \in DOMAIN table THEN table[word] ELSE word

(***************************************************************************)
(* SmartMapper.normalize_header                                            *)
(***************************************************************************)
\* a plausible slip: abbreviations are expanded before the name is lowercased
normalize_header_expand_first(h) ==
  LET words == split(h)
      expanded_words == [k \in 1..Len(words) |-> AbbreviationsGet(ABBREVIATIONS, words[k])]
  IN join(split(re_sub_special(lower(join(expanded_words)))))

normalize_header(h) ==
  LET stripped == re_sub_special(lower(h))
      collapsed == join(split(stripped))
      words == split(collapsed)
      expanded_words == [k \in 1..Len(words) |-> AbbreviationsGet(ABBREVIATIONS, words[k])]
  IN join(expanded_words)

(***************************************************************************)
(* Inputs                                                                  *)
(***************************************************************************)
SynonymPhrases ==
  UNION {ToSet(FIELD_SYNONYMS[category]) : category \in DOMAIN FIELD_SYNONYMS}

AbbreviationWords ==
  DOMAIN ABBREVIATIONS \cup {ABBREVIATIONS[w] : w \in DOMAIN ABBREVIATIONS}

\* headers with capitals, punctuation, repeated blanks, nothing but punctuation
OddHeaders ==
  { "", " ", "!!", "_-_", "#", "F-Name", "D.O.B", "Cust. No", "ST", "Dept_Mgr",
    "  Emp   ID ", "tel\tno", "Zip Code", "postal_code", "Email Address",
    "Full Name", "E-Mail", "Qty.", "SSN#", "Ref No.", "customer names" }

HeaderPool == SynonymPhrases \cup AbbreviationWords \cup OddHeaders

IdleNorm  == header = "" /\ normalized = <<>>
IdleScore == template_col = "" /\ raw_col = "" /\ score = <<>>
IdleMatch ==
  /\ similarity_threshold = DefaultThreshold
  /\ template_columns = <<>> /\ raw_columns = <<>>
  /\ cost_matrix = <<>>
  /\ template_indices = <<>> /\ raw_indices = <<>>
  /\ i = 0
  /\ mappings = <<>>
IdlePattern ==
  /\ raw_patterns = <<>> /\ template_patterns = <<>>
  /\ enhanced_mappings = <<>>
  /\ unmapped_template = <<>> /\ unused_raw = <<>>
IdleReview == show_all = TRUE /\ selected = <<>> /\ renders = 0
IdleContam ==
  /\ raw_df = <<>> /\ sample_size = DefaultSampleSize /\ col_index = 0
  /\ str_samples = <<>> /\ contamination = <<>>
IdleTransform == template_dtypes = <<>> /\ output_df = <<>>
IdleConfig ==
  /\ template_df = <<>> /\ twin_raw_df = <<>> /\ twin_template_df = <<>>
  /\ clock = 0
  /\ metadata = <<>> /\ exported = <<>> /\ compat = <<>>
IdleDetect == series = <<>> /\ pattern = ""
IdleApp ==
  /\ IdlePattern /\ IdleReview /\ IdleContam /\ IdleTransform /\ IdleConfig
  /\ IdleDetect

(***************************************************************************)
(* Repeated normalization of one header                                    *)
(***************************************************************************)
InitNorm ==
  /\ pc = "normalize"
  /\ header \in HeaderPool
  /\ normalized = <<>>
  /\ IdleScore /\ IdleMatch /\ IdleApp

NormalizeHeader ==
  /\ pc = "normalize"
  /\ Len(normalized) < MaxNormalize
  /\ normalized' = Append(normalized,
        normalize_header(IF normalized = <<>> THEN header
                         ELSE normalized[Len(normalized)]))
  /\ UNCHANGED <<appVars, pc, header, scoreVars, matchVars>>

NextNorm == NormalizeHeader

SpecNorm == InitNorm /\ [][NextNorm]_vars

\* C7: normalizing a normalized header changes nothing:
\* normalize_header(normalize_header(x)) = normalize_header(x) for every header x.
C7_NormalizeIdempotent ==
  \A k \in 1..Len(normalized) : normalized[k] = normalized[1]

\* a header whose abbreviation expanded to several words has been normalized twice
C7_Witness ==
  /\ Len(normalized) >= 2
  /\ Len(split(normalized[1])) > Len(split(re_sub_special(header)))

(***************************************************************************)
(* rapidfuzz.fuzz, as called by _calculate_match_score                     *)
(***************************************************************************)
\* one row of the longest-common-subsequence table, for character c of s:
\* row[j + 1] is the length for the characters of s up to c and the first j
\* characters of t; prev is the row before, acc the part of the row built so far
RECURSIVE LcsRow(_, _, _, _)
LcsRow(c, t, prev, acc) ==
  IF Len(acc) > Len(t) THEN acc
  ELSE LET j == Len(acc)
       IN LcsRow(c, t, prev,
                 Append(acc, IF CharAt(t, j) = c THEN prev[j] + 1
                             ELSE Max(prev[j + 1], acc[j])))

RECURSIVE LcsTable(_, _, _)
LcsTable(s, t, k) ==
  IF k = 0 THEN [j \in 1..(Len(t) + 1) |-> 0]
  ELSE LET prev == LcsTable(s, t, k - 1)
       IN LcsRow(CharAt(s, k), t, prev, <<prev[1]>>)

\* the table has one row per character of the shorter string
LcsLength(s, t) ==
  IF Len(s) <= Len(t) THEN LcsTable(s, t, Len(s))[Len(t) + 1]
  ELSE LcsTable(t, s, Len(t))[Len(s) + 1]

\* Indel distance: insertions and deletions turning s into t
indel_distance(s, t) == Len(s) + Len(t) - 2 * LcsLength(s, t)

\* 100 - 100 * dist / lensum, and 100 when both strings are empty
norm_distance(dist, lensum) ==
  IF lensum = 0 THEN RInt(100) ELSE Rat(100 * (lensum - dist), lensum)

\* fuzz.ratio
ratio(s, t) == norm_distance(indel_distance(s, t), Len(s) + Len(t))

\* s < t for Python strings over [a-z0-9]
RECURSIVE StrLess(_, _)
StrLess(s, t) ==
  IF t = "" THEN FALSE
  ELSE IF s = "" THEN TRUE
  ELSE LET a == IndexIn(CodePointOrder, CharAt(s, 1))
           b == IndexIn(CodePointOrder, CharAt(t, 1))
       IN IF a # b THEN a < b
          ELSE StrLess(SubSeq(s, 2, Len(s)), SubSeq(t, 2, Len(t)))

\* sorted(words) for a list of words
RECURSIVE sorted(_)
sorted(words) ==
  IF words = <<>> THEN <<>>
  ELSE LET k == CHOOSE m \in 1..Len(words) :
                  \A n \in 1..Len(words) : ~StrLess(words[n], words[m])
       IN <<words[k]>> \o sorted([n \in 1..(Len(words) - 1) |->
                                     IF n < k THEN words[n] ELSE words[n + 1]])

\* sorted(s) for a set of words
RECURSIVE sorted_set(_)
sorted_set(S) ==
  IF S = {} THEN <<>>
  ELSE LET w == CHOOSE x \in S : \A y \in S : ~StrLess(y, x)
       IN <<w>> \o sorted_set(S \ {w})

\* fuzz.token_sort_ratio
token_sort_ratio(s1, s2) == ratio(join(sorted(split(s1))), join(sorted(split(s2))))

\* a plausible slip: only the first string's side of the intersection
\* comparison is taken into the maximum
token_set_ratio_one_sided(s1, s2) ==
  LET tokens_a == ToSet(split(s1))
      tokens_b == ToSet(split(s2))
      intersect == tokens_a \cap tokens_b
      diff_ab == tokens_a \ tokens_b
      diff_ba == tokens_b \ tokens_a
      diff_ab_joined == join(sorted_set(diff_ab))
      diff_ba_joined == join(sorted_set(diff_ba))
      ab_len == Len(diff_ab_joined)
      ba_len == Len(diff_ba_joined)
      sect_len == Len(join(sorted_set(intersect)))
      sep == IF sect_len > 0 THEN 1 ELSE 0
      sect_ab_len == sect_len + sep + ab_len
      sect_ba_len == sect_len + sep + ba_len
      result == norm_distance(indel_distance(diff_ab_joined, diff_ba_joined),
                              sect_ab_len + sect_ba_len)
      sect_ab_ratio == norm_distance(sep + ab_len, sect_len + sect_ab_len)
  IN IF tokens_a = {} \/ tokens_b = {} THEN RInt(0)
     ELSE IF intersect # {} /\ (diff_ab = {} \/ diff_ba = {}) THEN RInt(100)
     ELSE IF sect_len = 0 THEN result
     ELSE RMax(result, sect_ab_ratio)

\* fuzz.token_set_ratio
token_set_ratio(s1, s2) ==
  LET tokens_a == ToSet(split(s1))
      tokens_b == ToSet(split(s2))
      intersect == tokens_a \cap tokens_b
      diff_ab == tokens_a \ tokens_b
      diff_ba == tokens_b \ tokens_a
      diff_ab_joined == join(sorted_set(diff_ab))
      diff_ba_joined == join(sorted_set(diff_ba))
      ab_len == Len(diff_ab_joined)
      ba_len == Len(diff_ba_joined)
      sect_len == Len(join(sorted_set(intersect)))
      sep == IF sect_len > 0 THEN 1 ELSE 0
      sect_ab_len == sect_len + sep + ab_len
      sect_ba_len == sect_len + sep + ba_len
      result == norm_distance(indel_distance(diff_ab_joined, diff_ba_joined),
                              sect_ab_len + sect_ba_len)
      sect_ab_ratio == norm_distance(sep + ab_len, sect_len + sect_ab_len)
      sect_ba_ratio == norm_distance(sep + ba_len, sect_len + sect_ba_len)
  IN IF tokens_a = {} \/ tokens_b = {} THEN RInt(0)
     ELSE IF intersect # {} /\ (diff_ab = {} \/ diff_ba = {}) THEN RInt(100)
     ELSE IF sect_len = 0 THEN result
     ELSE RMax(result, RMax(sect_ab_ratio, sect_ba_ratio))

(***************************************************************************)
(* SmartMapper._check_synonym_match and _calculate_match_score             *)
(***************************************************************************)
InSameGroup(term1, term2) ==
  \E category \in DOMAIN FIELD_SYNONYMS :
     /\ term1 \in ToSet(FIELD_SYNONYMS[category])
     /\ term2 \in ToSet(FIELD_SYNONYMS[category])

\* a plausible slip: the synonym confidence typed as 90
check_synonym_match_90(term1, term2) ==
  IF InSameGroup(term1, term2) THEN RInt(90) ELSE RInt(0)

check_synonym_match(term1, term2) ==
  IF InSameGroup(term1, term2) THEN RInt(95) ELSE RInt(0)

\* the token-based fallback, lines 188-201
fuzzy_fallback(norm_template, norm_raw) ==
  LET token_sort_score == token_sort_ratio(norm_template, norm_raw)
      token_set_score == token_set_ratio(norm_template, norm_raw)
      token_score == RDivInt(RAdd(token_sort_score, token_set_score), 2)
  IN IF RLeq(RInt(70), token_score) THEN token_score ELSE RInt(0)

\* a plausible slip: the guard "both must have words" is left out, so an empty
\* word set counts as a subset of the other
word_level_score_no_guard(norm_template, norm_raw) ==
  LET template_words == ToSet(split(norm_template))
      raw_words == ToSet(split(norm_raw))
      nt == Cardinality(template_words)
      nr == Cardinality(raw_words)
      shorter_set == IF nt <= nr THEN template_words ELSE raw_words
      longer_set == IF nt <= nr THEN raw_words ELSE template_words
  IN IF shorter_set \subseteq longer_set THEN RInt(95)
     ELSE fuzzy_fallback(norm_template, norm_raw)

\* the word-level analysis, lines 156-201
word_level_score(norm_template, norm_raw) ==
  LET template_words == ToSet(split(norm_template))
      raw_words == ToSet(split(norm_raw))
      common_words == template_words \cap raw_words
      nt == Cardinality(template_words)
      nr == Cardinality(raw_words)
      shorter_set == IF nt <= nr THEN template_words ELSE raw_words
      longer_set == IF nt <= nr THEN raw_words ELSE template_words
      nc == Cardinality(common_words)
  IN IF template_words = {} \/ raw_words = {} THEN RInt(0)
     ELSE IF shorter_set \subseteq longer_set THEN RInt(95)
     ELSE IF common_words # {} /\ 2 * nc > Max(nt, nr)
          THEN RAdd(RInt(70), Rat(20 * nc, Max(nt, nr)))
     ELSE fuzzy_fallback(norm_template, norm_raw)

calculate_match_score(t, r) ==
  LET norm_template == normalize_header(t)
      norm_raw == normalize_header(r)
      synonym_score == check_synonym_match(norm_template, norm_raw)
  IN IF norm_template = norm_raw THEN RInt(100)
     ELSE IF RLt(RInt(0), synonym_score) THEN synonym_score
     ELSE word_level_score(norm_template, norm_raw)

(***************************************************************************)
(* One call of _calculate_match_score                                      *)
(***************************************************************************)
ScorePool == SynonymPhrases \cup OddHeaders

InitScore ==
  /\ pc = "score"
  /\ template_col \in ScorePool
  /\ raw_col \in ScorePool
  /\ score = <<>>
  /\ IdleNorm /\ IdleMatch /\ IdleApp

CalculateMatchScore ==
  /\ pc = "score"
  /\ score' = calculate_match_score(template_col, raw_col)
  /\ pc' = "scored"
  /\ UNCHANGED <<appVars, template_col, raw_col, normVars, matchVars>>

NextScore == CalculateMatchScore

SpecScore == InitScore /\ [][NextScore]_vars

(***************************************************************************)
(* scipy.optimize.linear_sum_assignment, as called by fuzzy_match_headers  *)
(***************************************************************************)
Injections(D, R) ==
  {f \in [D -> R] : \A a, b \in D : a # b => f[a] # f[b]}

\* the complete assignments of an nt x nr matrix: every row of a matrix with at
\* most as many rows as columns is assigned, else every column; an assignment
\* is a set of <<row, column>> pairs
CompleteAssignments(nt, nr) ==
  IF nt <= nr
  THEN {{<<r, f[r]>> : r \in 1..nt} : f \in Injections(1..nt, 1..nr)}
  ELSE {{<<g[c], c>> : c \in 1..nr} : g \in Injections(1..nr, 1..nt)}

RECURSIVE SumOver(_, _)
SumOver(pairs, weight) ==
  IF pairs = {} THEN RInt(0)
  ELSE LET p == CHOOSE q \in pairs : TRUE
       IN RAdd(weight[p], SumOver(pairs \ {p}, weight))

\* the assignments of minimal total cost; which of several the solver returns is
\* its own tie-break rule
linear_sum_assignment(cost, nt, nr) ==
  LET all == CompleteAssignments(nt, nr)
      total == [A \in all |-> SumOver(A, cost)]
  IN {A \in all : \A B \in all : RLeq(total[A], total[B])}

\* row_ind, col_ind: the pairs of an assignment ordered by row
RowInd(A) ==
  LET rows == {p[1] : p \in A}
  IN CHOOSE s \in [1..Cardinality(rows) -> rows] :
       \A a, b \in 1..Cardinality(rows) : a < b => s[a] < s[b]

ColInd(A) ==
  LET row_ind == RowInd(A)
  IN [k \in 1..Len(row_ind) |-> (CHOOSE p \in A : p[1] = row_ind[k])[2]]

(***************************************************************************)
(* SmartMapper.fuzzy_match_headers                                         *)
(***************************************************************************)
\* Python's None, and a present column name
None == <<>>
Some(name) == <<name>>

\* an unmapped entry: (None, 0.0)
Unmapped == <<None, RInt(0)>>

\* a plausible slip: nothing to match, so an empty dict is returned
empty_result_no_keys(columns) == <<>>

\* line 97: {col: (None, 0.0) for col in template_columns}
empty_result(columns) == [col \in ToSet(columns) |-> Unmapped]

\* a plausible slip: the gate compares with the default 70, not with the
\* configured threshold
meets_threshold_default(s, threshold) == RLeq(RInt(70), s)

\* line 129: score >= self.similarity_threshold
meets_threshold(s, threshold) == RLeq(RInt(threshold), s)

\* lines 107-111: cost_matrix[i, j] = 100.0 - score
build_cost_matrix(template, raw) ==
  [p \in (1..Len(template)) \X (1..Len(raw)) |->
     RSub(RInt(100), calculate_match_score(template[p[1]], raw[p[2]]))]

\* lines 119-134: the entry written for template column k
mapping_entry(k, t_indices, r_indices, cost, raw, threshold) ==
  IF \E idx \in 1..Len(t_indices) : t_indices[idx] = k
  THEN LET idx == CHOOSE n \in 1..Len(t_indices) : t_indices[n] = k
           raw_idx == r_indices[idx]
           s == RSub(RInt(100), cost[<<k, raw_idx>>])
       IN IF meets_threshold(s, threshold)
          THEN <<Some(raw[raw_idx]), RDivInt(s, 100)>>
          ELSE Unmapped
  ELSE Unmapped

\* mappings[key] = entry
DictSet(dict, key, entry) ==
  [k \in DOMAIN dict \cup {key} |-> IF k = key THEN entry ELSE dict[k]]

(***************************************************************************)
(* Inputs of fuzzy_match_headers                                           *)
(***************************************************************************)
\* the default, and exact matches only
Thresholds == {DefaultThreshold, 100}

TemplatePool == {"name", "first name", ""}
RawPool == {"name", "full name", ""}

ColumnLists(pool) == UNION {[1..n -> pool] : n \in 0..MaxColumns}

\* the scenarios of the documentation, and one with a fuzzy score
Scenarios ==
  { << <<"Email Address", "Full Name", "Zip Code">>, <<"email", "name", "postal_code">> >>,
    << <<"Customer ID", "Customer Name">>, <<"id", "name">> >>,
    << <<"customer id", "order date">>, <<"customer name", "date">> >> }

InitMatch ==
  /\ pc = "match"
  /\ similarity_threshold \in Thresholds
  /\ \E input \in (ColumnLists(TemplatePool) \X ColumnLists(RawPool)) \cup Scenarios :
        /\ template_columns = input[1]
        /\ raw_columns = input[2]
  /\ cost_matrix = <<>>
  /\ template_indices = <<>> /\ raw_indices = <<>>
  /\ i = 0
  /\ mappings = <<>>
  /\ IdleNorm /\ IdleScore /\ IdleApp

\* lines 96-97
ReturnUnmapped ==
  /\ pc = "match"
  /\ raw_columns = <<>> \/ template_columns = <<>>
  /\ mappings' = empty_result(template_columns)
  /\ pc' = "done"
  /\ UNCHANGED <<appVars, similarity_threshold, template_columns, raw_columns, cost_matrix,
                 template_indices, raw_indices, i, normVars, scoreVars>>

\* lines 99-111
BuildCostMatrix ==
  /\ pc = "match"
  /\ raw_columns # <<>> /\ template_columns # <<>>
  /\ cost_matrix' = build_cost_matrix(template_columns, raw_columns)
  /\ pc' = "assign"
  /\ UNCHANGED <<appVars, similarity_threshold, template_columns, raw_columns,
                 template_indices, raw_indices, i, mappings, normVars, scoreVars>>

\* lines 113-117
SolveAssignment ==
  /\ pc = "assign"
  /\ \E A \in linear_sum_assignment(cost_matrix, Len(template_columns), Len(raw_columns)) :
        /\ template_indices' = RowInd(A)
        /\ raw_indices' = ColInd(A)
  /\ i' = 1
  /\ mappings' = <<>>
  /\ pc' = "build"
  /\ UNCHANGED <<appVars, similarity_threshold, template_columns, raw_columns, cost_matrix,
                 normVars, scoreVars>>

\* lines 118-134, one iteration of the loop (i counts from 1)
MapTemplateColumn ==
  /\ pc = "build"
  /\ i <= Len(template_columns)
  /\ mappings' = DictSet(mappings, template_columns[i],
                         mapping_entry(i, template_indices, raw_indices, cost_matrix,
                                       raw_columns, similarity_threshold))
  /\ i' = i + 1
  /\ UNCHANGED <<appVars, pc, similarity_threshold, template_columns, raw_columns, cost_matrix,
                 template_indices, raw_indices, normVars, scoreVars>>

\* line 136
ReturnMappings ==
  /\ pc = "build"
  /\ i > Len(template_columns)
  /\ pc' = "done"
  /\ UNCHANGED <<appVars, matchVars, normVars, scoreVars>>

Next ==
  \/ ReturnUnmapped
  \/ BuildCostMatrix
  \/ SolveAssignment
  \/ MapTemplateColumn
  \/ ReturnMappings

Spec == InitMatch /\ [][Next]_vars

(***************************************************************************)
(* Properties of the mapping returned by fuzzy_match_headers               *)
(***************************************************************************)
NoRepeats(columns) == Cardinality(ToSet(columns)) = Len(columns)

MappedTargets(m) == {t \in DOMAIN m : m[t][1] # None}

\* the source column names referenced by the mapping
UsedSources(m) == {m[t][1][1] : t \in MappedTargets(m)}

\* the sum of the match scores (confidence * 100) of the pairs kept in a mapping
KeptScoreSum(m) ==
  SumOver(MappedTargets(m), [t \in DOMAIN m |-> Rat(m[t][2][1] * 100, m[t][2][2])])

\* the one-to-one sets of <<target index, source index>> pairs in which every
\* pair scores at least the threshold
AcceptableMatchings(template, raw, threshold) ==
  LET good == {p \in (1..Len(template)) \X (1..Len(raw)) :
                 RLeq(RInt(threshold), calculate_match_score(template[p[1]], raw[p[2]]))}
  IN {M \in SUBSET good :
        \A p, q \in M : p # q => (p[1] # q[1] /\ p[2] # q[2])}

BestAcceptableSum(template, raw, threshold) ==
  LET all == AcceptableMatchings(template, raw, threshold)
      weight == [p \in (1..Len(template)) \X (1..Len(raw)) |->
                   calculate_match_score(template[p[1]], raw[p[2]])]
      total == [M \in all |-> SumOver(M, weight)]
  IN total[CHOOSE M \in all : \A N \in all : RLeq(total[N], total[M])]

\* C1: in the returned mapping no two distinct target columns reference the same
\* non-absent source column name, whatever the two name lists are.
C1_OneToOneByName ==
  pc = "done" =>
    \A t1, t2 \in MappedTargets(mappings) :
       t1 # t2 => mappings[t1][1] # mappings[t2][1]

\* C2: the match scores of the pairs kept in the returned mapping sum to the
\* maximum achievable by a one-to-one mapping whose pairs all score at least the
\* configured threshold (stated for target lists without repeated names, where
\* the mapping has one entry per target column).
C2_KeptSumIsMaximal ==
  (pc = "done" /\ NoRepeats(template_columns)) =>
    KeptScoreSum(mappings) =
      BestAcceptableSum(template_columns, raw_columns, similarity_threshold)

\* C3: a target column is left unmapped only if every source column that the
\* mapping does not use scores below the threshold against it (stated for
\* target lists without repeated names).
C3_UnmappedOnlyWithoutCandidate ==
  (pc = "done" /\ NoRepeats(template_columns)) =>
    \A t \in DOMAIN mappings :
       mappings[t] = Unmapped =>
         \A j \in 1..Len(raw_columns) :
            raw_columns[j] \notin UsedSources(mappings) =>
              RLt(calculate_match_score(t, raw_columns[j]), RInt(similarity_threshold))

\* the score of the pair the assignment chose for template column k
ChosenScore(k) ==
  LET idx == CHOOSE n \in 1..Len(template_indices) : template_indices[n] = k
  IN RSub(RInt(100), cost_matrix[<<k, raw_indices[idx]>>])

IsAssigned(k) == \E n \in 1..Len(template_indices) : template_indices[n] = k

\* C4 (threshold gate): when the pair chosen for a target column scores below
\* the configured threshold, the loop records the target as unmapped, (None, 0.0),
\* and every mapped entry has a confidence of at least threshold / 100.
C4_ThresholdGate ==
  [][ (pc = "build" /\ i <= Len(template_columns)) =>
        /\ (IsAssigned(i) /\ RLt(ChosenScore(i), RInt(similarity_threshold)))
              => mappings'[template_columns[i]] = Unmapped
        /\ \A t \in MappedTargets(mappings') :
              RLeq(Rat(similarity_threshold, 100), mappings'[t][2]) ]_vars

\* a target whose chosen pair scores below the threshold has been recorded as
\* unmapped although no target uses that source column
C4_Witness ==
  /\ pc = "done"
  /\ \E k \in 1..Len(template_columns) :
        /\ IsAssigned(k)
        /\ RLt(ChosenScore(k), RInt(similarity_threshold))
        /\ RLt(RInt(0), ChosenScore(k))
        /\ mappings[template_columns[k]] = Unmapped
        /\ \E n \in 1..Len(template_indices) :
              /\ template_indices[n] = k
              /\ raw_columns[raw_indices[n]] \notin UsedSources(mappings)

\* C5: the returned mapping is well formed for every pair of name lists: one
\* entry per target column name, each either (a source name, confidence in
\* (0, 1]) or (None, 0.0); no target gives an empty mapping, no source gives
\* every target unmapped; and nothing on the way can raise: the cost matrix
\* handed to the solver is complete with costs in [0, 100], and the indices the
\* loop reads are indices of the two lists.
C5_WellFormedMapping ==
  /\ pc = "done" =>
       /\ DOMAIN mappings = ToSet(template_columns)
       /\ \A t \in DOMAIN mappings :
             \/ mappings[t] = Unmapped
             \/ /\ mappings[t][1] \in {Some(r) : r \in ToSet(raw_columns)}
                /\ RLt(RInt(0), mappings[t][2])
                /\ RLeq(mappings[t][2], RInt(1))
       /\ template_columns = <<>> => mappings = <<>>
       /\ raw_columns = <<>> => \A t \in DOMAIN mappings : mappings[t] = Unmapped
  /\ pc \in {"assign", "build"} =>
       /\ DOMAIN cost_matrix = (1..Len(template_columns)) \X (1..Len(raw_columns))
       /\ \A p \in DOMAIN cost_matrix :
             RLeq(RInt(0), cost_matrix[p]) /\ RLeq(cost_matrix[p], RInt(100))
  /\ pc = "build" =>
       /\ Len(template_indices) = Len(raw_indices)
       /\ \A n \in 1..Len(template_indices) :
             /\ template_indices[n] \in 1..Len(template_columns)
             /\ raw_indices[n] \in 1..Len(raw_columns)

\* a repeated, empty target name has been mapped
C5_Witness ==
  /\ pc = "done"
  /\ ~NoRepeats(template_columns)
  /\ raw_columns = template_columns
  /\ "" \in MappedTargets(mappings)

\* C8: the documented scenario at the default threshold maps Email Address to
\* email and Full Name to name with a confidence in [0.95, 1.0], and Zip Code to
\* postal_code with a confidence of about 0.95.
C8_DocumentedScenario ==
  ( /\ pc = "done"
    /\ similarity_threshold = DefaultThreshold
    /\ template_columns = <<"Email Address", "Full Name", "Zip Code">>
    /\ raw_columns = <<"email", "name", "postal_code">> ) =>
      /\ mappings["Email Address"][1] = Some("email")
      /\ RLeq(Rat(95, 100), mappings["Email Address"][2])
      /\ mappings["Full Name"][1] = Some("name")
      /\ RLeq(Rat(95, 100), mappings["Full Name"][2])
      /\ mappings["Zip Code"][1] = Some("postal_code")
      /\ RLeq(Rat(94, 100), mappings["Zip Code"][2])
      /\ RLeq(mappings["Zip Code"][2], Rat(96, 100))

(***************************************************************************)
(* Properties of _calculate_match_score                                    *)
(***************************************************************************)
WordSet(name) == ToSet(split(normalize_header(name)))

\* C6 as stated: two (different) phrases of one synonym group score 95 in both
\* orders.
C6_SynonymsScore95 ==
  (pc = "scored" /\ template_col # raw_col /\ InSameGroup(template_col, raw_col)) =>
    /\ score = RInt(95)
    /\ calculate_match_score(raw_col, template_col) = RInt(95)

\* C6, amended: two phrases of one synonym group score the same in both orders:
\* 100 when they are equal after normalization, 95 otherwise.
C6_SynonymsScoreSymmetric ==
  (pc = "scored" /\ InSameGroup(template_col, raw_col)) =>
    /\ score = calculate_match_score(raw_col, template_col)
    /\ score = IF normalize_header(template_col) = normalize_header(raw_col)
               THEN RInt(100) ELSE RInt(95)

\* two different phrases of one group, different after normalization, scored 95
C6_Witness ==
  /\ pc = "scored"
  /\ InSameGroup(template_col, raw_col)
  /\ normalize_header(template_col) # normalize_header(raw_col)
  /\ normalize_header(raw_col) # raw_col
  /\ score = RInt(95)

\* neither equal, nor synonyms, nor one a word-subset of the other, and the
\* word overlap |intersection| / max(|set1|, |set2|) is exactly 0.5
HalfOverlap(a, b) ==
  LET wa == WordSet(a)
      wb == WordSet(b)
  IN /\ normalize_header(a) # normalize_header(b)
     /\ ~InSameGroup(normalize_header(a), normalize_header(b))
     /\ ~(wa \subseteq wb) /\ ~(wb \subseteq wa)
     /\ 2 * Cardinality(wa \cap wb) = Max(Cardinality(wa), Cardinality(wb))

\* C9: a pair of names with a word overlap of exactly 0.5 gets no score that
\* clears the (default) acceptance threshold, and so never 90 or more.
C9_HalfOverlapRejected ==
  (pc = "scored" /\ HalfOverlap(template_col, raw_col)) =>
    RLt(score, RInt(DefaultThreshold))

\* C10 as stated: when the normalized form of either name has no word, the
\* score is 0.
C10_EmptyWordSetScoresZero ==
  (pc = "scored" /\ (WordSet(template_col) = {} \/ WordSet(raw_col) = {})) =>
    score = RInt(0)

\* C10, amended: when the normalized form of exactly one of the two names has no
\* word, the score is 0; when neither has a word the two normalized names are
\* equal (both empty) and the score is 100.
C10_OneEmptyWordSetScoresZero ==
  pc = "scored" =>
    /\ ((WordSet(template_col) = {}) # (WordSet(raw_col) = {})) => score = RInt(0)
    /\ (WordSet(template_col) = {} /\ WordSet(raw_col) = {}) => score = RInt(100)

\* a name of punctuation only has been scored against a name with words
C10_Witness ==
  /\ pc = "scored"
  /\ template_col # "" /\ WordSet(template_col) = {}
  /\ WordSet(raw_col) # {}
  /\ score = RInt(0)

Patterns == {"text", "email", "numeric", "date"}

\* line 265: match is None or score < 0.8
is_unmapped_entry(entry) == entry[1] = None \/ RLt(entry[2], Rat(8, 10))

\* lines 264-265: the keys of the mapping, in insertion order, whose entry is
\* unmapped or weak
RECURSIVE unmapped_template_of(_, _)
unmapped_template_of(keys, m) ==
  IF keys = <<>> THEN <<>>
  ELSE (IF is_unmapped_entry(m[Head(keys)]) THEN <<Head(keys)>> ELSE <<>>)
       \o unmapped_template_of(Tail(keys), m)

\* line 268: the source columns referenced by the mapping
mapped_raw_of(m) == {m[t][1][1] : t \in {u \in DOMAIN m : m[u][1] # None}}

\* line 269: the raw columns, in order, that no entry references
RECURSIVE unused_raw_of(_, _)
unused_raw_of(cols, mapped_raw) ==
  IF cols = <<>> THEN <<>>
  ELSE (IF Head(cols) \in mapped_raw THEN <<>> ELSE <<Head(cols)>>)
       \o unused_raw_of(Tail(cols), mapped_raw)

\* a plausible slip: the cutoff of line 265 used again at line 291
may_override_below_08(current_score) == RLt(current_score, Rat(8, 10))

\* line 291: only a confidence below 0.6 is overridden
may_override(current_score) == RLt(current_score, Rat(6, 10))

\* a plausible slip: the first unused column is taken whatever its pattern
first_taken_any_pattern(unused, template_pattern, current_score, n) ==
  IF n > Len(unused) \/ ~may_override(current_score) THEN 0 ELSE n

\* the inner loop, lines 282-296: the position in unused of the first column
\* that is taken for the target, from position n on; 0 when none is taken
RECURSIVE first_taken(_, _, _, _)
first_taken(unused, template_pattern, current_score, n) ==
  IF n > Len(unused) THEN 0
  ELSE IF /\ template_pattern = raw_patterns[unused[n]]
          /\ may_override(current_score)
       THEN n
       ELSE first_taken(unused, template_pattern, current_score, n + 1)

\* a plausible slip: the column taken stays in the unused list
pop_nothing(list, n) == list

\* list.pop(n), 1-based here
pop(list, n) == [m \in 1..(Len(list) - 1) |-> IF m < n THEN list[m] ELSE list[m + 1]]

\* mappings given to the pattern pass: every target has an entry, unmapped or
\* a source column of the dataset with a positive confidence
ConfidencePool == {Rat(1, 2), Rat(6, 10), Rat(95, 100)}
PatternPool == {"text", "email", "numeric"}
PatternTargetNames == <<"Email", "Amount">>
PatternRawNames == <<"mail", "total", "signup">>
Prefixes(names) == {SubSeq(names, 1, n) : n \in 0..(IF MaxColumns < Len(names) THEN MaxColumns ELSE Len(names))}
EntryPool(cols) == {Unmapped} \cup {<<Some(r), c>> : r \in ToSet(cols), c \in ConfidencePool}

InitPattern ==
  /\ pc = "pattern"
  /\ template_columns \in Prefixes(PatternTargetNames)
  /\ raw_columns \in Prefixes(PatternRawNames)
  /\ mappings \in [ToSet(template_columns) -> EntryPool(raw_columns)]
  /\ raw_patterns \in [ToSet(raw_columns) -> PatternPool]
  /\ template_patterns \in [ToSet(template_columns) -> PatternPool]
  /\ enhanced_mappings = <<>>
  /\ unmapped_template = <<>> /\ unused_raw = <<>>
  /\ similarity_threshold = DefaultThreshold
  /\ cost_matrix = <<>>
  /\ template_indices = <<>> /\ raw_indices = <<>>
  /\ i = 0
  /\ IdleDetect /\ IdleNorm /\ IdleScore /\ IdleReview /\ IdleContam /\ IdleTransform /\ IdleConfig

\* lines 256-269
PreparePatternMatch ==
  /\ pc = "pattern"
  /\ enhanced_mappings' = mappings
  /\ unmapped_template' = unmapped_template_of(template_columns, mappings)
  /\ unused_raw' = unused_raw_of(raw_columns, mapped_raw_of(mappings))
  /\ pc' = "enhance"
  /\ UNCHANGED <<raw_patterns, template_patterns, matchVars, patternFrame>>

\* one iteration of the loop of lines 272-296, for the first target still to
\* be tried
EnhanceTemplateColumn ==
  /\ pc = "enhance"
  /\ unmapped_template # <<>>
  /\ LET target == Head(unmapped_template)
         template_pattern == template_patterns[target]
         current_score == enhanced_mappings[target][2]
         n == IF target \notin DOMAIN template_patterns \/ template_pattern = "text"
              THEN 0
              ELSE first_taken(unused_raw, template_pattern, current_score, 1)
     IN IF n = 0
        THEN UNCHANGED <<enhanced_mappings, unused_raw>>
        ELSE /\ enhanced_mappings' = DictSet(enhanced_mappings, target,
                                              <<Some(unused_raw[n]), Rat(6, 10)>>)
             /\ unused_raw' = pop(unused_raw, n)
  /\ unmapped_template' = Tail(unmapped_template)
  /\ UNCHANGED <<pc, raw_patterns, template_patterns, matchVars, patternFrame>>

\* line 298
ReturnEnhanced ==
  /\ pc = "enhance"
  /\ unmapped_template = <<>>
  /\ pc' = "enhanced"
  /\ UNCHANGED <<patternVars, matchVars, patternFrame>>

NextPattern == PreparePatternMatch \/ EnhanceTemplateColumn \/ ReturnEnhanced

SpecPattern == InitPattern /\ [][NextPattern]_vars

(***************************************************************************)
(* Properties of semantic_pattern_match                                    *)
(***************************************************************************)
\* C12: the pattern pass lowers no confidence, and a target whose confidence
\* was 0.6 or more keeps its source column and its confidence.
C12_PatternPassNonRegression ==
  pc \in {"enhance", "enhanced"} =>
    /\ DOMAIN enhanced_mappings = DOMAIN mappings
    /\ \A t \in DOMAIN mappings :
          /\ RLeq(mappings[t][2], enhanced_mappings[t][2])
          /\ RLeq(Rat(6, 10), mappings[t][2]) => enhanced_mappings[t] = mappings[t]

\* the pass has returned; a target mapped at 0.6 had a source of its pattern
\* available and was left alone, and a weaker one was moved to 0.6
C12_Witness ==
  /\ pc = "enhanced"
  /\ \E t \in DOMAIN mappings :
        /\ mappings[t][2] = Rat(6, 10)
        /\ template_patterns[t] # "text"
        /\ \E r \in ToSet(raw_columns) :
              /\ r \notin mapped_raw_of(mappings)
              /\ raw_patterns[r] = template_patterns[t]
  /\ \E t \in DOMAIN mappings :
        /\ mappings[t][2] = Rat(1, 2)
        /\ enhanced_mappings[t][2] = Rat(6, 10)
        /\ enhanced_mappings[t][1] # mappings[t][1]

OneToOne(m) ==
  \A t1, t2 \in DOMAIN m :
     (t1 # t2 /\ m[t1][1] # None) => m[t1][1] # m[t2][1]

\* the targets whose entry the pass has changed
PatternMatched == {t \in DOMAIN mappings : enhanced_mappings[t] # mappings[t]}

\* C13: the pattern pass keeps a one-to-one mapping one-to-one; a source
\* column referenced in the input mapping is given to no other target, and no
\* source column is given to two targets in the same pass.
C13_PatternPassOneToOne ==
  pc \in {"enhance", "enhanced"} =>
    /\ OneToOne(mappings) => OneToOne(enhanced_mappings)
    /\ \A t \in PatternMatched :
          enhanced_mappings[t][1][1] \notin mapped_raw_of(mappings)
    /\ \A t1, t2 \in PatternMatched :
          t1 # t2 => enhanced_mappings[t1][1] # enhanced_mappings[t2][1]

\* two targets of the same pattern were matched in one pass, and both source
\* columns have that pattern
C13_Witness ==
  /\ pc = "enhanced"
  /\ OneToOne(mappings)
  /\ \E t1, t2 \in PatternMatched :
        /\ t1 # t2
        /\ template_patterns[t1] = template_patterns[t2]
        /\ \A r \in ToSet(raw_columns) : raw_patterns[r] = template_patterns[t1]

\* the source columns, as positions of the dataset's column order, that the
\* input mapping does not reference and that no target has been given in this
\* pass
StillUnused ==
  {n \in 1..Len(raw_columns) :
      /\ raw_columns[n] \notin mapped_raw_of(mappings)
      /\ \A u \in PatternMatched : enhanced_mappings[u][1] # Some(raw_columns[n])}

\* the still unused source columns whose value pattern is that of the target
SamePattern(target) ==
  {n \in StillUnused : raw_patterns[raw_columns[n]] = template_patterns[target]}

\* C21: when the pass tries a target whose confidence is below 0.6 and whose
\* value pattern is email, numeric or date, the target is given the first
\* source column, in the dataset's column order, that is still unused and has
\* the same pattern, at confidence exactly 0.6; a target whose pattern is text
\* is not given a column, and a target for which no unused source column has
\* its pattern keeps its entry.
C21_FirstUnusedSamePattern ==
  [][(pc = "enhance" /\ unmapped_template # <<>>) =>
       LET target == Head(unmapped_template)
           same == SamePattern(target)
       IN /\ ( /\ RLt(mappings[target][2], Rat(6, 10))
               /\ template_patterns[target] \in {"email", "numeric", "date"}
               /\ same # {} ) =>
               \E n \in same :
                  /\ \A m \in same : n <= m
                  /\ enhanced_mappings'[target] = <<Some(raw_columns[n]), Rat(6, 10)>>
          /\ (template_patterns[target] = "text" \/ same = {}) =>
               /\ enhanced_mappings[target] = mappings[target]
               /\ enhanced_mappings'[target] = mappings[target]
          /\ \A u \in DOMAIN mappings :
               u # target => enhanced_mappings'[u] = enhanced_mappings[u]
    ]_vars

\* the pass has returned: a weak target was given a source column that is not
\* the first unused one (an earlier unused column has another pattern), a
\* target of pattern text with an unused text column was left alone, and so
\* was a weak target with no column of its pattern
C21_Witness ==
  /\ pc = "enhanced"
  /\ \E t \in PatternMatched, n \in 1..Len(raw_columns) :
        /\ RLt(mappings[t][2], Rat(6, 10))
        /\ enhanced_mappings[t] = <<Some(raw_columns[n]), Rat(6, 10)>>
        /\ \E m \in 1..(n - 1) :
              /\ raw_columns[m] \notin mapped_raw_of(mappings)
              /\ raw_patterns[raw_columns[m]] # template_patterns[t]
  /\ \E t \in DOMAIN mappings :
        /\ RLt(mappings[t][2], Rat(6, 10))
        /\ enhanced_mappings[t] = mappings[t]
        /\ \/ /\ template_patterns[t] = "text"
              /\ \E r \in ToSet(raw_columns) :
                    /\ r \notin mapped_raw_of(enhanced_mappings)
                    /\ raw_patterns[r] = "text"
           \/ /\ template_patterns[t] # "text"
              /\ \A r \in ToSet(raw_columns) : raw_patterns[r] # template_patterns[t]

(***************************************************************************)
(* app.main: the review section, "Review and Adjust Mappings"              *)
(***************************************************************************)
NoMatch == "<No Match>"

\* lines 292-295: the source columns the session mapping references
used_columns_set(m) == mapped_raw_of(m)

\* line 302: the entry is hidden when the filter is on
is_filtered(all, entry) ==
  ~all /\ entry[1] # None /\ RLeq(Rat(8, 10), entry[2])

\* lines 312-315: the options of a target's selectbox
available_columns(cols, m, entry) ==
  {NoMatch} \cup {col \in ToSet(cols) : col \notin used_columns_set(m) \/ Some(col) = entry[1]}

\* line 318: the option shown when the reviewer has chosen nothing
current_selection(cols, m, entry) ==
  IF entry[1] # None /\ entry[1][1] \in (available_columns(cols, m, entry) \ {NoMatch})
  THEN entry[1][1] ELSE NoMatch

\* line 334
new_score(confidence) == IF RLt(RInt(0), confidence) THEN confidence ELSE RInt(1)

\* lines 331-337: the entry stored for a selectbox value
edited_entry(choice, entry) ==
  IF choice # NoMatch THEN <<Some(choice), new_score(entry[2])>> ELSE Unmapped

\* the session mapping when the review section is first rendered: the result
\* of Auto-Map, one-to-one over the columns of the source dataset
InitReview ==
  /\ pc = "review"
  /\ template_columns \in Prefixes(PatternTargetNames)
  /\ raw_columns \in Prefixes(PatternRawNames)
  /\ mappings \in {m \in [ToSet(template_columns) -> EntryPool(raw_columns)] : OneToOne(m)}
  /\ show_all = TRUE /\ selected = <<>> /\ renders = 0
  /\ similarity_threshold = DefaultThreshold
  /\ cost_matrix = <<>>
  /\ template_indices = <<>> /\ raw_indices = <<>>
  /\ i = 0
  /\ IdleDetect /\ IdleNorm /\ IdleScore /\ IdlePattern /\ IdleContam /\ IdleTransform /\ IdleConfig

\* one run of lines 257-358: the checkbox and every selectbox hold the value
\* the reviewer left in them (the default option when nothing was chosen)
RenderReview ==
  /\ pc = "review"
  /\ DOMAIN mappings # {}
  /\ renders < MaxRenders
  /\ \E all \in BOOLEAN :
       LET shown == {t \in DOMAIN mappings : ~is_filtered(all, mappings[t])}
       IN \E choice \in [shown -> ToSet(raw_columns) \cup {NoMatch}] :
            /\ \A t \in shown :
                  choice[t] \in available_columns(raw_columns, mappings, mappings[t])
            /\ show_all' = all
            /\ selected' = choice
            /\ mappings' = [t \in shown |-> edited_entry(choice[t], mappings[t])]
  /\ renders' = renders + 1
  /\ UNCHANGED <<pc, similarity_threshold, template_columns, raw_columns, cost_matrix,
                 template_indices, raw_indices, i, reviewFrame>>

NextReview == RenderReview

SpecReview == InitReview /\ [][NextReview]_vars

\* C14: in the first render after Auto-Map, a target for which the reviewer
\* selects a source column other than the auto-computed one is stored with
\* confidence 1.0, a selection equal to the auto-computed one keeps its
\* confidence, and "<No Match>" is stored as (absent, 0.0).
C14_ManualOverrideConfidence ==
  [][(renders = 0 /\ renders' = 1) =>
       \A t \in DOMAIN selected' :
          /\ selected'[t] = NoMatch => mappings'[t] = Unmapped
          /\ (selected'[t] # NoMatch /\ Some(selected'[t]) # mappings[t][1]) =>
                mappings'[t] = <<Some(selected'[t]), RInt(1)>>
          /\ (selected'[t] # NoMatch /\ Some(selected'[t]) = mappings[t][1]) =>
                mappings'[t] = <<Some(selected'[t]), mappings[t][2]>>]_vars

\* the option a target's selectbox shows when the reviewer has chosen nothing:
\* the source column of its entry, or "<No Match>" for an unmapped target
Untouched(t) == IF mappings[t][1] = None THEN NoMatch ELSE mappings[t][1][1]

\* C23: a render of the review section in which the reviewer has changed no
\* selectbox, with the "Show all mappings" filter checked or unchecked,
\* leaves the session mapping as it was: every target keeps its entry, with
\* the same source column and the same confidence.
C23_RenderKeepsMapping ==
  [][(/\ renders' = renders + 1
      /\ \A t \in DOMAIN selected' : selected'[t] = Untouched(t))
       => mappings' = mappings]_vars

(***************************************************************************)
(* SmartMapper._detect_value_contamination                                 *)
(* A cell is None (missing) or Some(text); a column is its list of cells.  *)
(***************************************************************************)
\* Series.nunique(): distinct values, missing ones not counted
nunique(cells) == Cardinality(ToSet(cells) \ {None})

\* Series.dropna().astype(str), for cells that hold text
RECURSIVE dropna(_)
dropna(cells) ==
  IF cells = <<>> THEN <<>>
  ELSE (IF Head(cells) = None THEN <<>> ELSE <<Head(cells)[1]>>) \o dropna(Tail(cells))

\* line 317: nunique() > len(df) * 0.9
is_identifier_like(cells) == 10 * nunique(cells) > 9 * Len(cells)

\* line 321: min(sample_size, len(df[col])), the rows counted with their
\* missing cells
sample_request(cap, cells) == IF cap <= Len(cells) THEN cap ELSE Len(cells)

\* Series.sample(n) followed by set(): the sets of values that n distinct
\* positions of the list can give
Samples(values, n) ==
  {{values[k] : k \in P} : P \in {Q \in SUBSET (1..Len(values)) : Cardinality(Q) = n}}

\* line 326: the keys of str_samples, in the order the columns were sampled
RECURSIVE sampled_columns(_, _)
sampled_columns(cols, samples) ==
  IF cols = <<>> THEN <<>>
  ELSE (IF Head(cols) \in DOMAIN samples THEN <<Head(cols)>> ELSE <<>>)
       \o sampled_columns(Tail(cols), samples)

common_values(samples, col1, col2) == samples[col1] \cap samples[col2]

smaller_size(samples, col1, col2) ==
  IF Cardinality(samples[col1]) <= Cardinality(samples[col2])
  THEN Cardinality(samples[col1]) ELSE Cardinality(samples[col2])

\* a plausible slip: >= in place of > at line 336
is_significant_overlap_or_equal(samples, col1, col2) ==
  /\ common_values(samples, col1, col2) # {}
  /\ 10 * Cardinality(common_values(samples, col1, col2)) >= smaller_size(samples, col1, col2)

\* lines 331-336: len(common) > 0 and len(common) / min(...) > 0.1
is_significant_overlap(samples, col1, col2) ==
  /\ common_values(samples, col1, col2) # {}
  /\ 10 * Cardinality(common_values(samples, col1, col2)) > smaller_size(samples, col1, col2)

\* int(overlap_pct * 100)
overlap_percent(samples, col1, col2) ==
  (100 * Cardinality(common_values(samples, col1, col2))) \div smaller_size(samples, col1, col2)

\* the entries appended to contamination[col] by the loop of lines 327-343:
\* one per other sampled column with a significant overlap, in column order
RECURSIVE overlap_entries(_, _, _)
overlap_entries(col, others, samples) ==
  IF others = <<>> THEN <<>>
  ELSE (IF Head(others) # col /\ is_significant_overlap(samples, col, Head(others))
        THEN << <<Head(others), overlap_percent(samples, col, Head(others))>> >>
        ELSE <<>>)
       \o overlap_entries(col, Tail(others), samples)

\* lines 327-343: the report, with a key for every column that has an entry
contamination_report(cols, samples) ==
  LET columns == sampled_columns(cols, samples)
      reported == {c \in ToSet(columns) : overlap_entries(c, columns, samples) # <<>>}
  IN [c \in reported |-> overlap_entries(c, columns, samples)]

\* source datasets: every dataset of up to MaxRows rows over two columns whose
\* cells are missing or one of two texts, sampled with a small or the default
\* cap, and one larger dataset sampled with the default cap
ContamColumnNames == <<"city", "town">>
CellPool == {None, Some("Oslo"), Some("Rome")}
SmallCaps == {1, 2}
Texts(prefix) == [n \in 1..12 |-> Some(prefix[n])]
LargeColumns == <<"code", "ref", "serial", "tag">>
LargeDataset ==
  [code   |-> Texts(<<"v1", "v2", "v3", "v4", "v5", "v6", "v7", "v8", "v9", "v10", "v1", "v2">>),
   ref    |-> Texts(<<"v1", "w2", "w3", "w4", "w5", "w6", "w7", "w8", "w9", "w10", "w2", "w3">>),
   serial |-> Texts(<<"v1", "v2", "v3", "v4", "v5", "v6", "v7", "v8", "v9", "v10", "s11", "s12">>),
   tag    |-> Texts(<<"v1", "v2", "x3", "x4", "x5", "x6", "x7", "x8", "x9", "x10", "x3", "x4">>)]

InitContam ==
  /\ pc = "sample"
  /\ \/ /\ raw_columns \in {SubSeq(ContamColumnNames, 1, n) : n \in 0..Len(ContamColumnNames)}
        /\ \E rows \in 0..MaxRows :
              raw_df \in [ToSet(raw_columns) -> [1..rows -> CellPool]]
        /\ sample_size \in SmallCaps \cup {DefaultSampleSize}
     \/ /\ raw_columns = LargeColumns
        /\ raw_df = LargeDataset
        /\ sample_size = DefaultSampleSize
  /\ col_index = 1
  /\ str_samples = <<>> /\ contamination = <<>>
  /\ similarity_threshold = DefaultThreshold
  /\ template_columns = <<>>
  /\ cost_matrix = <<>>
  /\ template_indices = <<>> /\ raw_indices = <<>>
  /\ i = 0
  /\ mappings = <<>>
  /\ IdleDetect /\ IdleNorm /\ IdleScore /\ IdlePattern /\ IdleReview /\ IdleTransform /\ IdleConfig

contamUnchanged == <<similarity_threshold, template_columns, raw_columns, cost_matrix,
                     template_indices, raw_indices, i, mappings, raw_df, sample_size,
                     contamFrame>>

\* lines 317-318: the column is skipped
SkipColumn ==
  /\ pc = "sample"
  /\ col_index <= Len(raw_columns)
  /\ is_identifier_like(raw_df[raw_columns[col_index]])
  /\ col_index' = col_index + 1
  /\ UNCHANGED <<pc, str_samples, contamination, contamUnchanged>>

\* line 321: Series.sample raises ValueError when asked for more values than
\* the list holds
SampleRaises ==
  /\ pc = "sample"
  /\ col_index <= Len(raw_columns)
  /\ LET cells == raw_df[raw_columns[col_index]]
     IN /\ ~is_identifier_like(cells)
        /\ sample_request(sample_size, cells) > Len(dropna(cells))
  /\ pc' = "raised"
  /\ UNCHANGED <<col_index, str_samples, contamination, contamUnchanged>>

\* lines 321-323: a sample is drawn and kept when it is not empty
SampleColumn ==
  /\ pc = "sample"
  /\ col_index <= Len(raw_columns)
  /\ LET col == raw_columns[col_index]
         cells == raw_df[col]
     IN /\ ~is_identifier_like(cells)
        /\ sample_request(sample_size, cells) <= Len(dropna(cells))
        /\ \E sample \in Samples(dropna(cells), sample_request(sample_size, cells)) :
              str_samples' = IF sample # {} THEN DictSet(str_samples, col, sample)
                             ELSE str_samples
  /\ col_index' = col_index + 1
  /\ UNCHANGED <<pc, contamination, contamUnchanged>>

\* lines 326-345
ComparePairs ==
  /\ pc = "sample"
  /\ col_index > Len(raw_columns)
  /\ contamination' = contamination_report(raw_columns, str_samples)
  /\ pc' = "reported"
  /\ UNCHANGED <<col_index, str_samples, contamUnchanged>>

NextContam == SkipColumn \/ SampleRaises \/ SampleColumn \/ ComparePairs

SpecContam == InitContam /\ [][NextContam]_vars

(***************************************************************************)
(* Properties of _detect_value_contamination                               *)
(***************************************************************************)
\* C15: the call never raises: whenever a column is about to be sampled, the
\* number of values asked for is at most the number of values that are not
\* missing.
C15_SamplingNeverRaises ==
  /\ pc # "raised"
  /\ (pc = "sample" /\ col_index <= Len(raw_columns)
        /\ ~is_identifier_like(raw_df[raw_columns[col_index]])) =>
       sample_request(sample_size, raw_df[raw_columns[col_index]])
         <= Len(dropna(raw_df[raw_columns[col_index]]))

\* the entry of column other in the report of column col, or <<>>
ReportEntries(col, other) ==
  IF col \notin DOMAIN contamination THEN <<>>
  ELSE SelectSeq(contamination[col], LAMBDA e : e[1] = other)

\* C16: two columns holding the same values in more rows than the sample cap,
\* neither of them identifier-like, are each in the other's report with an
\* overlap of about 100% in every run that returns.
C16_IdenticalColumnsReported ==
  pc = "reported" =>
    \A c1, c2 \in ToSet(raw_columns) :
       (/\ c1 # c2
        /\ raw_df[c1] = raw_df[c2]
        /\ Len(raw_df[c1]) > sample_size
        /\ ~is_identifier_like(raw_df[c1])) =>
          /\ Len(ReportEntries(c1, c2)) = 1
          /\ Len(ReportEntries(c2, c1)) = 1
          /\ ReportEntries(c1, c2)[1][2] >= 95
          /\ ReportEntries(c2, c1)[1][2] >= 95

\* C17: in the report returned, column c2 is in the list of c1 exactly when c1
\* is in the list of c2, with the same percentage, at most once, and exactly
\* when both were sampled and |intersection| / min(sizes) > 0.1 for the two
\* sampled sets; an identifier-like column is in no list and has none.
C17_ReportSymmetricThresholded ==
  pc = "reported" =>
    /\ DOMAIN contamination \subseteq ToSet(raw_columns)
    /\ \A c \in DOMAIN contamination : contamination[c] # <<>>
    /\ \A c1, c2 \in ToSet(raw_columns) :
          /\ ReportEntries(c1, c2) = [n \in 1..Len(ReportEntries(c2, c1)) |->
                                         <<c2, ReportEntries(c2, c1)[n][2]>>]
          /\ Len(ReportEntries(c1, c2)) <= 1
          /\ ReportEntries(c1, c2) # <<>> <=>
                /\ c1 # c2
                /\ {c1, c2} \subseteq DOMAIN str_samples
                /\ 10 * Cardinality(str_samples[c1] \cap str_samples[c2])
                     > smaller_size(str_samples, c1, c2)
          /\ ReportEntries(c1, c2) # <<>> =>
                ReportEntries(c1, c2)[1][2] * smaller_size(str_samples, c1, c2)
                  <= 100 * Cardinality(str_samples[c1] \cap str_samples[c2])
          /\ is_identifier_like(raw_df[c1]) =>
                c1 \notin DOMAIN contamination /\ ReportEntries(c2, c1) = <<>>

\* the report of the larger dataset: "code" and "ref" share one value of ten
\* (exactly 0.1) and are not reported to each other, "code" and "tag" share two
\* of ten and are, and the identifier-like "serial" shares ten values with "code"
C17_Witness ==
  /\ pc = "reported"
  /\ raw_columns = LargeColumns
  /\ 10 * Cardinality(str_samples["code"] \cap str_samples["ref"])
       = smaller_size(str_samples, "code", "ref")
  /\ ReportEntries("code", "ref") = <<>>
  /\ ReportEntries("code", "tag") = << <<"tag", 20>> >>
  /\ ReportEntries("tag", "code") = << <<"code", 20>> >>
  /\ is_identifier_like(raw_df["serial"])
  /\ "serial" \notin DOMAIN str_samples

(***************************************************************************)
(* DataTransformer.apply_mappings and clean_data                           *)
(* Here a cell carries its Python type: None (NaN), Text(s), Number(n), and *)
(* in the output also Date(s) and Epoch(n) for datetime values.            *)
(***************************************************************************)
Text(s) == <<"str", s>>
Number(n) == <<"num", n>>
Date(s) == <<"date", s>>
Epoch(n) == <<"epoch", n>>
IsText(cell) == cell # None /\ cell[1] = "str"
IsNumber(cell) == cell # None /\ cell[1] = "num"

DigitSet == CharSet(Digits)
is_digits(s) == s # "" /\ \A k \in 1..Len(s) : CharAt(s, k) \in DigitSet

\* the value of a string of decimal digits
RECURSIVE digits_value(_)
digits_value(s) ==
  IF s = "" THEN 0
  ELSE 10 * digits_value(SubSeq(s, 1, Len(s) - 1)) + (IndexIn(Digits, CharAt(s, Len(s))) - 1)

\* str(n) for a natural number
RECURSIVE int_to_str(_)
int_to_str(n) ==
  IF n < 10 THEN CharAt(Digits, n + 1)
  ELSE int_to_str(n \div 10) \o CharAt(Digits, (n % 10) + 1)

\* str.strip()
RECURSIVE strip(_)
strip(s) ==
  IF s = "" THEN ""
  ELSE IF CharAt(s, 1) \in WhiteSpace THEN strip(SubSeq(s, 2, Len(s)))
  ELSE IF CharAt(s, Len(s)) \in WhiteSpace THEN strip(SubSeq(s, 1, Len(s) - 1))
  ELSE s

\* a plausible slip: errors='ignore', which hands back what cannot be parsed
to_numeric_ignore(cell) ==
  IF IsText(cell) /\ is_digits(cell[2]) THEN Number(digits_value(cell[2])) ELSE cell

\* pd.to_numeric(..., errors='coerce') on one cell: a text of digits is
\* parsed, any other text becomes NaN
to_numeric(cell) ==
  IF IsNumber(cell) THEN cell
  ELSE IF IsText(cell) /\ is_digits(cell[2]) THEN Number(digits_value(cell[2]))
  ELSE None

\* YYYY-MM-DD with a month and a day that exist in every year
is_iso_date(s) ==
  /\ Len(s) = 10
  /\ CharAt(s, 5) = "-" /\ CharAt(s, 8) = "-"
  /\ is_digits(SubSeq(s, 1, 4)) /\ is_digits(SubSeq(s, 6, 7)) /\ is_digits(SubSeq(s, 9, 10))
  /\ digits_value(SubSeq(s, 6, 7)) \in 1..12
  /\ digits_value(SubSeq(s, 9, 10)) \in 1..28

\* pd.to_datetime(..., errors='coerce') on one cell: a number is a count of
\* nanoseconds since the epoch, an ISO date is parsed, any other text becomes
\* NaT; whether a bare number written as text is read as a date depends on
\* the parser in use (lenient)
to_datetime(cell, lenient) ==
  IF IsNumber(cell) THEN Epoch(cell[2])
  ELSE IF IsText(cell) /\ is_iso_date(cell[2]) THEN Date(cell[2])
  ELSE IF IsText(cell) /\ is_digits(cell[2]) /\ lenient THEN Date(cell[2])
  ELSE None

\* Series.dtype of a list of cells, as far as lines 16 and 70-74 tell them apart
dtype_of(cells) ==
  IF \E k \in 1..Len(cells) : IsText(cells[k]) THEN "object"
  ELSE IF \E k \in 1..Len(cells) : cells[k] # None /\ cells[k][1] \in {"date", "epoch"}
       THEN "datetime64"
  ELSE "numeric"

\* lines 70-77: the coercion to the dtype of the template column
coerce_column(cells, template_dtype, lenient) ==
  IF template_dtype = "numeric" THEN [k \in 1..Len(cells) |-> to_numeric(cells[k])]
  ELSE IF template_dtype = "datetime64"
       THEN [k \in 1..Len(cells) |-> to_datetime(cells[k], lenient)]
  ELSE cells

\* astype(str) on one cell of an object column
astype_str(cell) ==
  IF cell = None THEN "nan"
  ELSE IF IsNumber(cell) THEN int_to_str(cell[2])
  ELSE cell[2]

\* lines 17-19 on one cell
clean_cell(cell) ==
  LET stripped == strip(astype_str(cell))
  IN IF stripped \in {"", "nan", "None", "null"} THEN None ELSE Text(stripped)

\* clean_data, lines 14-19, on one column
clean_column(cells) ==
  IF dtype_of(cells) = "object" THEN [k \in 1..Len(cells) |-> clean_cell(cells[k])]
  ELSE cells

\* lines 62 and 80-82
is_copied(entry, df) == entry[1] # None /\ entry[1][1] \in DOMAIN df

\* the rows of the output: those of the copied columns, none when nothing is
\* copied
output_rows(m, df) ==
  IF \E t \in DOMAIN m : is_copied(m[t], df)
  THEN Len(df[CHOOSE c \in DOMAIN df : TRUE])
  ELSE 0

\* lines 61-85 for one target
output_column(entry, df, template_dtype, rows, lenient) ==
  IF is_copied(entry, df)
  THEN clean_column(coerce_column(df[entry[1][1]], template_dtype, lenient))
  ELSE [k \in 1..rows |-> None]

\* the source dataset has one column of up to MaxRows cells; a target is
\* unmapped, mapped to that column, or mapped to a column the dataset lacks
TransformTargets == <<"Amount", "Joined">>
TransformRawColumns == <<"total">>
TransformCells ==
  {None, Number(7), Text("12"), Text("abc"), Text(" x "), Text(""), Text("2024-01-05")}
TransformEntries == {Unmapped, <<Some("total"), RInt(1)>>, <<Some("gone"), RInt(1)>>}
Dtypes == {"object", "numeric", "datetime64"}

InitTransform ==
  /\ pc = "transform"
  /\ raw_columns = TransformRawColumns
  /\ \E rows \in 0..MaxRows : raw_df \in [ToSet(raw_columns) -> [1..rows -> TransformCells]]
  /\ template_columns \in {SubSeq(TransformTargets, 1, n) : n \in 0..Len(TransformTargets)}
  /\ mappings \in [ToSet(template_columns) -> TransformEntries]
  /\ template_dtypes \in [ToSet(template_columns) -> Dtypes]
  /\ output_df = <<>>
  /\ similarity_threshold = DefaultThreshold
  /\ cost_matrix = <<>>
  /\ template_indices = <<>> /\ raw_indices = <<>>
  /\ i = 0
  /\ sample_size = DefaultSampleSize /\ col_index = 0
  /\ str_samples = <<>> /\ contamination = <<>>
  /\ IdleDetect /\ IdleNorm /\ IdleScore /\ IdlePattern /\ IdleReview /\ IdleConfig

\* apply_mappings, lines 59-87
ApplyMappings ==
  /\ pc = "transform"
  /\ \E lenient \in BOOLEAN :
       output_df' = [t \in DOMAIN mappings |->
                       output_column(mappings[t], raw_df, template_dtypes[t],
                                     output_rows(mappings, raw_df), lenient)]
  /\ pc' = "transformed"
  /\ UNCHANGED <<similarity_threshold, template_columns, raw_columns, cost_matrix,
                 template_indices, raw_indices, i, mappings, contamVars,
                 template_dtypes, transformFrame>>

NextTransform == ApplyMappings

SpecTransform == InitTransform /\ [][NextTransform]_vars

(***************************************************************************)
(* Properties of apply_mappings                                            *)
(***************************************************************************)
\* the cells of the source column a numeric or datetime target is copied from
\* that the coercion cannot convert
Coerced(t) ==
  is_copied(mappings[t], raw_df) /\ template_dtypes[t] \in {"numeric", "datetime64"}
SourceCells(t) == raw_df[mappings[t][1][1]]
Uncoercible(t, k) ==
  /\ IsText(SourceCells(t)[k])
  /\ ~is_digits(SourceCells(t)[k][2])
  /\ template_dtypes[t] = "datetime64" => ~is_iso_date(SourceCells(t)[k][2])

\* C18 as stated: the column of a coerced target is complete and a value that
\* cannot be coerced is left in the output as it was.
C18_UncoercedValueLeft ==
  pc = "transformed" =>
    \A t \in DOMAIN output_df :
       Coerced(t) =>
         /\ Len(output_df[t]) = Len(SourceCells(t))
         /\ \A k \in 1..Len(SourceCells(t)) :
               Uncoercible(t, k) => output_df[t][k] = SourceCells(t)[k]

\* C18, amended: the column of a coerced target is complete, a value that
\* cannot be coerced is a missing value in the output (no text is left in the
\* column), and the values that can be coerced are converted.
C18_UncoercedValueMissing ==
  pc = "transformed" =>
    \A t \in DOMAIN output_df :
       Coerced(t) =>
         /\ Len(output_df[t]) = Len(SourceCells(t))
         /\ \A k \in 1..Len(SourceCells(t)) :
               /\ Uncoercible(t, k) => output_df[t][k] = None
               /\ ~IsText(output_df[t][k])
               /\ (template_dtypes[t] = "numeric" /\ SourceCells(t)[k] \in {Number(7), Text("12")})
                     => output_df[t][k] \in {Number(7), Number(12)}
               /\ (template_dtypes[t] = "datetime64" /\ SourceCells(t)[k] = Text("2024-01-05"))
                     => output_df[t][k] = Date("2024-01-05")

\* a numeric target copied from a column that holds a number written as text,
\* a text that is no number, and a number
C18_Witness ==
  /\ pc = "transformed"
  /\ \E t \in DOMAIN output_df :
        /\ Coerced(t)
        /\ template_dtypes[t] = "numeric"
        /\ SourceCells(t) = <<Text("12"), Text("abc"), Number(7)>>
        /\ output_df[t] = <<Number(12), None, Number(7)>>

(***************************************************************************)
(* SmartMapper.detect_data_patterns                                        *)
(***************************************************************************)
\* line 221: sample.head(10)
HeadLimit == 10

\* Series.head(n)
head(list, n) == SubSeq(list, 1, IF Len(list) < n THEN Len(list) ELSE n)

LetterSet == CharSet(LowerCase) \cup UpperSet
\* line 224: [a-zA-Z0-9._%+-] and [a-zA-Z0-9.-]
LocalChars == AlnumSet \cup {".", "_", "%", "+", "-"}
DomainChars == AlnumSet \cup {".", "-"}

chars_in(s, from, to, set) == \A k \in from..to : CharAt(s, k) \in set

\* lines 224-225: re.match of ^[a-zA-Z0-9._%+-]+@[a-zA-Z0-9.-]+\.[a-zA-Z]{2,}$
\* ($ also matches before one newline that ends the text)
re_match_email(text) ==
  LET s == IF text # "" /\ CharAt(text, Len(text)) = "\n"
           THEN SubSeq(text, 1, Len(text) - 1) ELSE text
  IN \E at \in 2..Len(s), dot \in 4..Len(s) :
        /\ CharAt(s, at) = "@" /\ CharAt(s, dot) = "."
        /\ chars_in(s, 1, at - 1, LocalChars)
        /\ at + 1 < dot
        /\ chars_in(s, at + 1, dot - 1, DomainChars)
        /\ dot + 2 <= Len(s)
        /\ chars_in(s, dot + 1, Len(s), LetterSet)

\* line 230: re.sub(r'[$,£€]', '', str(x)).replace(',', '')
CurrencyChars == {"$", ",", "£", "€"}
RECURSIVE numeric_clean(_)
numeric_clean(s) ==
  IF s = "" THEN ""
  ELSE (IF CharAt(s, 1) \in CurrencyChars THEN "" ELSE CharAt(s, 1))
       \o numeric_clean(SubSeq(s, 2, Len(s)))

\* a decimal literal: an optional sign, digits with at most one point, at
\* least one digit
is_decimal(text) ==
  LET s == IF text # "" /\ CharAt(text, 1) \in {"+", "-"}
           THEN SubSeq(text, 2, Len(text)) ELSE text
      points == {k \in 1..Len(s) : CharAt(s, k) = "."}
  IN /\ Cardinality(points) <= 1
     /\ \E k \in 1..Len(s) : CharAt(s, k) \in DigitSet
     /\ \A k \in 1..Len(s) : CharAt(s, k) \in DigitSet \cup {"."}

\* line 232: pd.to_numeric(numeric_clean) with the default errors='raise'
\* accepts an element when it is a decimal literal, a spelling of nan or of
\* infinity, or the empty text, which it reads as NaN
to_numeric_accepts(s) ==
  \/ s = ""
  \/ is_decimal(s)
  \/ lower(s) \in {"nan", "inf", "+inf", "-inf", "infinity", "+infinity", "-infinity"}

\* line 240: pd.to_datetime(sample, errors='coerce') gives a date for an
\* element; whether a bare number is read as a date depends on the parser in
\* use (lenient)
to_datetime_notna(s, lenient) == is_iso_date(s) \/ (lenient /\ is_decimal(s))

\* lines 215-248
detect_data_patterns(cells, lenient) ==
  LET present == dropna(cells)
      sample == head(present, HeadLimit)
      dates == {k \in 1..Len(sample) : to_datetime_notna(sample[k], lenient)}
  IN IF Len(present) = 0 THEN "text"
     ELSE IF \A k \in 1..Len(sample) : re_match_email(sample[k]) THEN "email"
     ELSE IF \A k \in 1..Len(sample) : to_numeric_accepts(numeric_clean(sample[k]))
          THEN "numeric"
     ELSE IF 2 * Cardinality(dates) > Len(sample) THEN "date"
     ELSE "text"

\* the columns classified: every list of up to MaxRows cells of the pool, and
\* three longer columns that differ after their tenth present value
DetectCells ==
  {None, Some("a@b.io"), Some("a@b"), Some("12"), Some("$1,200"), Some("3.5"),
   Some("$"), Some("2024-01-05"), Some("2024-13-45"), Some("Oslo")}
Repeat(cell, n) == [k \in 1..n |-> cell]
LongSeries ==
  { Repeat(Some("a@b.io"), 10) \o <<Some("Oslo")>>,
    <<None>> \o Repeat(Some("12"), 10) \o <<Some("Oslo")>>,
    Repeat(Some("2024-01-05"), 6) \o Repeat(Some("Oslo"), 5) }

InitDetect ==
  /\ pc = "detect"
  /\ \/ \E n \in 0..MaxRows : series \in [1..n -> DetectCells]
     \/ series \in LongSeries
  /\ pattern = ""
  /\ IdleNorm /\ IdleScore /\ IdleMatch
  /\ IdlePattern /\ IdleReview /\ IdleContam /\ IdleTransform /\ IdleConfig

\* one call of detect_data_patterns
DetectDataPatterns ==
  /\ pc = "detect"
  /\ \E lenient \in BOOLEAN : pattern' = detect_data_patterns(series, lenient)
  /\ pc' = "detected"
  /\ UNCHANGED <<series, detectFrame>>

NextDetect == DetectDataPatterns

SpecDetect == InitDetect /\ [][NextDetect]_vars

(***************************************************************************)
(* Properties of detect_data_patterns                                      *)
(***************************************************************************)
\* the first ten present values of the column
Sample == head(dropna(series), HeadLimit)

\* the text, once currency symbols and thousands separators are stripped, is
\* a number
ParsesAsNumber(s) == is_decimal(numeric_clean(s))

\* C22: the pattern returned follows the precedence email, numeric, date,
\* text over the first ten present values: email when every value matches the
\* email pattern; otherwise numeric when every value is a number once
\* currency symbols and separators are stripped; otherwise date when more
\* than half of the values parse to dates; otherwise text.  A column with no
\* present value is text.
C22_PatternPrecedence ==
  pc = "detected" =>
    \E lenient \in BOOLEAN :
      pattern =
        IF Sample = <<>> THEN "text"
        ELSE IF \A k \in 1..Len(Sample) : re_match_email(Sample[k]) THEN "email"
        ELSE IF \A k \in 1..Len(Sample) : ParsesAsNumber(Sample[k]) THEN "numeric"
        ELSE IF 2 * Cardinality({k \in 1..Len(Sample) :
                                   to_datetime_notna(Sample[k], lenient)})
                > Len(Sample)
             THEN "date"
        ELSE "text"

(***************************************************************************)
(* MetadataManager and the Export / Import handlers of app.main            *)
(***************************************************************************)
\* the characters of column names in code point order
NameOrder == " " \o Digits \o UpperCase \o "_" \o LowerCase \o "|"

\* s < t for Python strings over those characters
RECURSIVE NameLess(_, _)
NameLess(s, t) ==
  IF t = "" THEN FALSE
  ELSE IF s = "" THEN TRUE
  ELSE LET a == IndexIn(NameOrder, CharAt(s, 1))
           b == IndexIn(NameOrder, CharAt(t, 1))
       IN IF a # b THEN a < b
          ELSE NameLess(SubSeq(s, 2, Len(s)), SubSeq(t, 2, Len(t)))

\* sorted(columns)
RECURSIVE sorted_names(_)
sorted_names(columns) ==
  IF columns = <<>> THEN <<>>
  ELSE LET k == CHOOSE m \in 1..Len(columns) :
                  \A n \in 1..Len(columns) : ~NameLess(columns[n], columns[m])
       IN <<columns[k]>> \o sorted_names([n \in 1..(Len(columns) - 1) |->
                                            IF n < k THEN columns[n] ELSE columns[n + 1]])

\* '|'.join(words)
RECURSIVE join_bar(_)
join_bar(words) ==
  IF words = <<>> THEN ""
  ELSE IF Len(words) = 1 THEN words[1]
  ELSE words[1] \o "|" \o join_bar(Tail(words))

\* hashlib.md5(text).hexdigest(): one digest per text, never the empty string
md5(text) == "md5:" \o text

\* _generate_fingerprint, lines 65-68
generate_fingerprint(columns) == md5(join_bar(sorted_names(columns)))

\* the truth value of a source column: None and '' are false
truthy(col) == col # None /\ col # Some("")

\* _serialize_mappings, lines 70-79; confidence >= 80 as written
serialize_mappings(m) ==
  [t \in DOMAIN m |->
     [source_column |-> m[t][1],
      confidence_score |-> m[t][2],
      mapping_type |-> IF m[t][2] # RInt(0) /\ RLeq(RInt(80), m[t][2])
                       THEN "automatic" ELSE "manual"]]

RECURSIVE confidence_sum(_, _)
confidence_sum(keys, m) ==
  IF keys = {} THEN RInt(0)
  ELSE LET t == CHOOSE k \in keys : TRUE
       IN RAdd(IF truthy(m[t][1]) THEN m[t][2] ELSE RInt(0),
               confidence_sum(keys \ {t}, m))

\* _calculate_mapping_quality, lines 81-98
calculate_mapping_quality(m) ==
  LET total == Cardinality(DOMAIN m)
      mapped == Cardinality({t \in DOMAIN m : m[t][1] # None})
      high_confidence ==
        Cardinality({t \in DOMAIN m : truthy(m[t][1]) /\ RLeq(RInt(80), m[t][2])})
      avg_confidence ==
        IF mapped > 0 THEN RDivInt(confidence_sum(DOMAIN m, m), mapped) ELSE RInt(0)
  IN IF total = 0
     THEN [overall_score |-> RInt(0), completeness |-> RInt(0), confidence |-> RInt(0)]
     ELSE [overall_score |-> Rat(100 * mapped, total),
           completeness |-> Rat(100 * mapped, total),
           average_confidence |-> avg_confidence,
           high_confidence_mappings |-> high_confidence,
           total_mappings |-> total,
           successful_mappings |-> mapped]

\* create_metadata, lines 41-63
create_metadata(raw_cols, template_cols, m, raw_df_stats, template_df_stats, timestamp) ==
  [version |-> "1.0",
   created_at |-> timestamp,
   last_updated |-> timestamp,
   source_fingerprint |-> generate_fingerprint(raw_cols),
   template_fingerprint |-> generate_fingerprint(template_cols),
   mappings |-> serialize_mappings(m),
   statistics |-> [raw_data |-> raw_df_stats,
                   template |-> template_df_stats,
                   mapping_quality |-> calculate_mapping_quality(m)],
   column_info |-> [raw_columns |-> raw_cols,
                    template_columns |-> template_cols,
                    mapped_count |-> Cardinality({t \in DOMAIN m : m[t][1] # None}),
                    unmapped_count |-> Cardinality({t \in DOMAIN m : m[t][1] = None})]]

\* MetadataManager.__init__, lines 12-20
InitialMetadata ==
  [version |-> "1.0", created_at |-> None, last_updated |-> None,
   mappings |-> <<>>, statistics |-> <<>>, validation_rules |-> <<>>]

\* len(df)
row_count(df, cols) == IF cols = <<>> THEN 0 ELSE Len(df[cols[1]])

\* a plausible slip: the statistics carry the first values of every column,
\* as DataReader.get_schema does
df_stats_with_samples(df, cols) ==
  [row_count |-> row_count(df, cols),
   column_count |-> Len(cols),
   columns |-> cols,
   sample_values |-> [c \in ToSet(cols) |-> dropna(df[c])]]

\* app.main, lines 115-124
df_stats(df, cols) ==
  [row_count |-> row_count(df, cols),
   column_count |-> Len(cols),
   columns |-> cols]

\* json.dumps / json.loads: the text of a configuration stands for its value;
\* strings, numbers, None, lists and dicts with string keys come back unchanged
json_dumps(value) == <<"json", value>>
json_loads(text) == text[2]

\* self.metadata.get(key, '')
metadata_get(config, key) == IF key \in DOMAIN config THEN config[key] ELSE ""

\* _get_compatibility_recommendation, lines 147-156
get_compatibility_recommendation(raw_match, template_match) ==
  IF raw_match /\ template_match
  THEN "Perfect match! You can reuse all mappings."
  ELSE IF template_match /\ ~raw_match
  THEN "Template matches. You can reuse mappings, but verify raw data compatibility."
  ELSE IF ~template_match /\ raw_match
  THEN "Raw data structure matches, but template is different. New mapping required."
  ELSE "Different data structure detected. New mapping recommended."

\* validate_compatibility, lines 124-145
validate_compatibility(config, raw_cols, template_cols) ==
  LET current_raw_fp == generate_fingerprint(raw_cols)
      current_template_fp == generate_fingerprint(template_cols)
      stored_raw_fp == metadata_get(config, "source_fingerprint")
      stored_template_fp == metadata_get(config, "template_fingerprint")
  IN [is_compatible |-> (current_raw_fp = stored_raw_fp
                         /\ current_template_fp = stored_template_fp),
      raw_structure_match |-> current_raw_fp = stored_raw_fp,
      template_structure_match |-> current_template_fp = stored_template_fp,
      can_reuse_mappings |-> current_template_fp = stored_template_fp,
      recommendation |-> get_compatibility_recommendation(
                           current_raw_fp = stored_raw_fp,
                           current_template_fp = stored_template_fp)]

Sessions == {1, 2}
SessionRaw(s) == IF s = 1 THEN raw_df ELSE twin_raw_df
SessionTemplate(s) == IF s = 1 THEN template_df ELSE twin_template_df

configUnchanged == <<similarity_threshold, template_columns, raw_columns, cost_matrix,
                     template_indices, raw_indices, i, mappings, contamVars,
                     template_df, twin_raw_df, twin_template_df, configFrame>>

\* the Export button of session s, lines 112-139
Export(s) ==
  /\ pc = "config"
  /\ s \notin DOMAIN exported
  /\ DOMAIN mappings # {}
  /\ clock' = clock + 1
  /\ metadata' = [metadata EXCEPT ![s] =
        create_metadata(raw_columns, template_columns, mappings,
                        df_stats(SessionRaw(s), raw_columns),
                        df_stats(SessionTemplate(s), template_columns),
                        clock')]
  /\ exported' = DictSet(exported, s, json_dumps(metadata'[s]))
  /\ UNCHANGED <<pc, compat, configUnchanged>>

\* the Import uploader of session s, lines 150-153, given the text another
\* session downloaded
Import(s) ==
  /\ pc = "config"
  /\ \E from \in DOMAIN exported \ {s} :
       /\ metadata[s] # json_loads(exported[from])
       /\ metadata' = [metadata EXCEPT ![s] = json_loads(exported[from])]
  /\ UNCHANGED <<pc, clock, exported, compat, configUnchanged>>

\* the column-name lists a configuration is validated against
NameLists ==
  { <<>>, <<"id">>, <<"name">>, <<"id", "name">>, <<"name", "id">>,
    <<"id|name">>, <<"id", "id">>, <<"id", "name", "zip">> }

\* validate_compatibility on the manager of session s; the call changes
\* nothing in the manager, and one call is followed in a run
ValidateCompatibility(s) ==
  /\ pc = "config"
  /\ compat = <<>>
  /\ \E raw_cols \in NameLists, template_cols \in NameLists :
       compat' = [session |-> s, raw_columns |-> raw_cols,
                  template_columns |-> template_cols,
                  report |-> validate_compatibility(metadata[s], raw_cols, template_cols)]
  /\ UNCHANGED <<pc, clock, metadata, exported, configUnchanged>>

\* two sessions with the same column names and the same mapping; the cells of
\* their datasets are drawn freely
ExportRawColumns == <<"city">>
ExportTemplateColumns == <<"place">>
ExportEntries == {Unmapped, <<Some("city"), Rat(95, 100)>>, <<Some("city"), Rat(6, 10)>>}
TemplateRows == {0, 1}
ExportCells == {None, Some("Oslo")}
Datasets(cols, rowCounts) ==
  UNION {[ToSet(cols) -> [1..rows -> ExportCells]] : rows \in rowCounts}

InitExport ==
  /\ pc = "config"
  /\ raw_columns = ExportRawColumns
  /\ template_columns = ExportTemplateColumns
  /\ raw_df \in Datasets(raw_columns, 0..MaxRows)
  /\ twin_raw_df \in Datasets(raw_columns, 0..MaxRows)
  /\ template_df \in Datasets(template_columns, TemplateRows)
  /\ twin_template_df \in Datasets(template_columns, TemplateRows)
  /\ mappings \in [ToSet(template_columns) -> ExportEntries]
  /\ clock = 0
  /\ metadata = [s \in Sessions |-> InitialMetadata]
  /\ exported = <<>> /\ compat = <<>>
  /\ similarity_threshold = DefaultThreshold
  /\ cost_matrix = <<>>
  /\ template_indices = <<>> /\ raw_indices = <<>>
  /\ i = 0
  /\ sample_size = DefaultSampleSize /\ col_index = 0
  /\ str_samples = <<>> /\ contamination = <<>>
  /\ IdleDetect /\ IdleNorm /\ IdleScore /\ IdlePattern /\ IdleReview /\ IdleTransform

NextExport == \E s \in Sessions : Export(s)

SpecExport == InitExport /\ [][NextExport]_vars

\* the configuration without its two timestamps
WithoutTimestamps(config) == [config EXCEPT !.created_at = 0, !.last_updated = 0]

\* C19: two export runs with the same column names, the same row counts and
\* the same mapping give the same configuration apart from the timestamps,
\* whatever the cells of the two source and the two template datasets hold.
C19_ConfigurationHasNoRowValues ==
  (/\ DOMAIN exported = Sessions
   /\ row_count(raw_df, raw_columns) = row_count(twin_raw_df, raw_columns)
   /\ row_count(template_df, template_columns)
        = row_count(twin_template_df, template_columns)) =>
     WithoutTimestamps(json_loads(exported[1])) = WithoutTimestamps(json_loads(exported[2]))

\* both sessions have exported; their datasets have the same numbers of rows
\* and different cells, and the mapping has a mapped entry
C19_Witness ==
  /\ DOMAIN exported = Sessions
  /\ row_count(raw_df, raw_columns) = MaxRows
  /\ row_count(twin_raw_df, raw_columns) = MaxRows
  /\ raw_df # twin_raw_df
  /\ \A k \in 1..MaxRows : raw_df["city"][k] # twin_raw_df["city"][k]
  /\ row_count(template_df, template_columns) = row_count(twin_template_df, template_columns)
  /\ template_df # twin_template_df
  /\ mappings["place"] # Unmapped
  /\ json_loads(exported[1]).created_at # json_loads(exported[2]).created_at

\* the targets mapped with a confidence of at least 0.8, the cutoff of the
\* review section for auto-accepted mappings
AutoAccepted == {t \in DOMAIN mappings : mappings[t][1] # None /\ RLeq(Rat(8, 10), mappings[t][2])}

\* C24: in a configuration exported from the session mapping, whose
\* confidences are between 0.0 and 1.0, an entry is labelled 'automatic'
\* exactly when it is mapped with a confidence of at least 0.8 and 'manual'
\* otherwise, and high_confidence_mappings counts the 'automatic' entries.
C24_AutomaticAtEightyPercent ==
  \A s \in DOMAIN exported :
     LET config == json_loads(exported[s])
     IN /\ \A t \in DOMAIN mappings :
             config.mappings[t].mapping_type
               = IF t \in AutoAccepted THEN "automatic" ELSE "manual"
        /\ config.statistics.mapping_quality.high_confidence_mappings
             = Cardinality(AutoAccepted)

(***************************************************************************)
(* A configuration is created, passed on, and validated against new lists   *)
(***************************************************************************)
\* the datasets have no rows; their column names are distinct
StoredLists == {cols \in NameLists : NoRepeats(cols)}
NoRows(cols) == [c \in ToSet(cols) |-> <<>>]

InitCompat ==
  /\ pc = "config"
  /\ raw_columns \in StoredLists
  /\ template_columns \in StoredLists \ {<<>>}
  /\ raw_df = NoRows(raw_columns) /\ twin_raw_df = raw_df
  /\ template_df = NoRows(template_columns) /\ twin_template_df = template_df
  /\ mappings = [t \in ToSet(template_columns) |-> Unmapped]
  /\ clock = 0
  /\ metadata = [s \in Sessions |-> InitialMetadata]
  /\ exported = <<>> /\ compat = <<>>
  /\ similarity_threshold = DefaultThreshold
  /\ cost_matrix = <<>>
  /\ template_indices = <<>> /\ raw_indices = <<>>
  /\ i = 0
  /\ sample_size = DefaultSampleSize /\ col_index = 0
  /\ str_samples = <<>> /\ contamination = <<>>
  /\ IdleDetect /\ IdleNorm /\ IdleScore /\ IdlePattern /\ IdleReview /\ IdleTransform

NextCompat == Export(1) \/ Import(2) \/ (\E s \in Sessions : ValidateCompatibility(s))

SpecCompat == InitCompat /\ [][NextCompat]_vars

\* the same names irrespective of their order: one list is a rearrangement of
\* the other
SameNames(cols1, cols2) ==
  /\ Len(cols1) = Len(cols2)
  /\ \A name \in ToSet(cols1) \cup ToSet(cols2) :
        Cardinality({k \in 1..Len(cols1) : cols1[k] = name})
          = Cardinality({k \in 1..Len(cols2) : cols2[k] = name})

HasConfiguration(s) == "source_fingerprint" \in DOMAIN metadata[s]

\* C20: every validate_compatibility call on a manager that holds a created or
\* imported configuration reports the source (template) structure match
\* exactly when the new source (template) names are the stored names in some
\* order; the two results give four outcomes with four different
\* recommendations, is_compatible is their conjunction and can_reuse_mappings
\* is the template match.
C20_CompatibilityByNames ==
  [][(compat' # compat /\ HasConfiguration(compat'.session)) =>
    LET stored == metadata[compat'.session].column_info
        report == compat'.report
    IN /\ report.raw_structure_match
            <=> SameNames(compat'.raw_columns, stored.raw_columns)
       /\ report.template_structure_match
            <=> SameNames(compat'.template_columns, stored.template_columns)
       /\ report.is_compatible
            <=> (report.raw_structure_match /\ report.template_structure_match)
       /\ report.can_reuse_mappings <=> report.template_structure_match
       /\ report.recommendation =
            get_compatibility_recommendation(report.raw_structure_match,
                                             report.template_structure_match)
       /\ \A a, b, c, d \in BOOLEAN :
             get_compatibility_recommendation(a, b) = get_compatibility_recommendation(c, d)
               => (a = c /\ b = d)]_vars

====
